---- MODULE Spec2Model ----
(***************************************************************************)
(* Model of standardcurve1.py, the Streamlit script "DNS Assay: Build and  *)
(* Use a Standard Curve".  Streamlit reruns the whole script, top to       *)
(* bottom, after every edit of a widget: one action of the model is one    *)
(* edit followed by one complete run of the script.                        *)
(*                                                                         *)
(* Numbers.  The script computes in IEEE doubles (numpy float64).  The     *)
(* model computes in exact rationals, extended with the special doubles    *)
(* NaN, +inf and -inf, which the script produces and tests for.  A value   *)
(* is a record [k, n, d]: k = "num" is the rational n/d in lowest terms    *)
(* with d > 0; every other kind has n = 0, d = 1.                          *)
(***************************************************************************)
EXTENDS Integers, Sequences, FiniteSets

VARIABLES
    concs,                  \* edited_std["Glucose (mg/mL)"], in 1/ConcScale mg/mL
    absorbs,                \* edited_std["Absorbance (AU)"], in 1/AbsScale AU
    start_conc,             \* value of the start number_input, in 1/ConcScale mg/mL
    end_conc,               \* value of the end number_input, in 1/ConcScale mg/mL
    unknown_abs,            \* edited_unknown["Absorbance (AU)"], one value per row
    beverage,               \* text_input
    estimated_conc_input,   \* number_input, in 1/EstScale mg/mL
    dilution_factor_input,  \* number_input
    pc,                     \* where the last run of the script ended
    slope,                  \* script variables after the last run
    intercept,
    r_squared,              \* r_value**2 (r_value is only ever used squared)
    estimates,              \* edited_unknown["Estimated Glucose (mg/mL)"]
    original_conc_final,
    screen,                 \* the messages of the last run that the claims are about
    report,                 \* what generate_combined_csv returned, field by field
    rt                      \* inputs and result of one direct call of estimate_concentration

inputs == <<concs, absorbs, start_conc, end_conc, unknown_abs, beverage,
            estimated_conc_input, dilution_factor_input>>
derived == <<pc, slope, intercept, r_squared, estimates, original_conc_final,
             screen, report>>
vars == <<inputs, derived, rt>>

-----------------------------------------------------------------------------
(* Units and bounds *)

\* the calibration concentrations have one decimal place
ConcScale == 10
\* the calibration absorbances are multiples of 0.05 AU
AbsScale == 20
\* the estimated concentration input has three decimal places
EstScale == 1000
\* at most this many input widgets / table cells differ from their initial value
MaxChanged == 3

-----------------------------------------------------------------------------
(* Values: rationals and the special doubles *)

Abs(i) == IF i < 0 THEN -i ELSE i

RECURSIVE GCD(_, _)
GCD(a, b) == IF b = 0 THEN a ELSE GCD(b, a % b)

Special(kind) == [k |-> kind, n |-> 0, d |-> 1]
NaN == Special("nan")
PosInf == Special("inf")
NegInf == Special("ninf")
\* a script variable that the run has not assigned
Unbound == Special("unbound")
\* the two strings estimate_concentration can return
NoValidFit == Special("N/A (no valid linear fit)")
SlopeIsZero == Special("Error: Slope is zero")

\* n/d, d # 0, in lowest terms
Rat(n, d) ==
    LET s == IF d < 0 THEN -1 ELSE 1
        g == GCD(Abs(n), Abs(d))
    IN [k |-> "num", n |-> (s * n) \div g, d |-> Abs(d) \div g]

IsNum(v) == v.k = "num"
\* np.isnan / pd.isna on a float
IsNaN(v) == v.k = "nan"
Zero == Rat(0, 1)

RatNeg(a) == [k |-> "num", n |-> -a.n, d |-> a.d]
RatAdd(a, b) ==
    LET g == GCD(a.d, b.d)
    IN Rat(a.n * (b.d \div g) + b.n * (a.d \div g), a.d * (b.d \div g))
RatSub(a, b) == RatAdd(a, RatNeg(b))
\* cross-cancelled before multiplying, so that the products stay small
RatMul(a, b) ==
    LET g1 == GCD(Abs(a.n), b.d)
        g2 == GCD(Abs(b.n), a.d)
    IN Rat((a.n \div g1) * (b.n \div g2), (a.d \div g2) * (b.d \div g1))
\* b # 0
RatInv(b) == IF b.n < 0 THEN [k |-> "num", n |-> -b.d, d |-> -b.n]
                        ELSE [k |-> "num", n |-> b.d, d |-> b.n]
RatDiv(a, b) == RatMul(a, RatInv(b))

\* float64 subtraction and division of the values the script can hold here:
\* a NaN operand gives NaN; x / 0.0 is not an exception for numpy floats but
\* gives -inf, NaN or +inf by the sign of x
FSub(a, b) == IF IsNum(a) /\ IsNum(b) THEN RatSub(a, b) ELSE NaN
FDiv(a, b) ==
    IF ~(IsNum(a) /\ IsNum(b)) THEN NaN
    ELSE IF b.n # 0 THEN RatDiv(a, b)
    ELSE IF a.n < 0 THEN NegInf
    ELSE IF a.n > 0 THEN PosInf
    ELSE NaN
\* est_conc < 0 on a float: false for NaN
FNegative(v) == v.k = "ninf" \/ (IsNum(v) /\ v.n < 0)

\* floor and remainder of k * r / d for 0 <= r < d, by doubling, so that no
\* intermediate value exceeds 2 * d
RECURSIVE ScaledDiv(_, _, _)
ScaledDiv(k, r, d) ==
    IF k = 0 THEN [q |-> 0, r |-> 0]
    ELSE LET h == ScaledDiv(k \div 2, r, d)
             dq == IF 2 * h.r >= d THEN 2 * h.q + 1 ELSE 2 * h.q
             dr == IF 2 * h.r >= d THEN 2 * h.r - d ELSE 2 * h.r
         IN IF k % 2 = 0 THEN [q |-> dq, r |-> dr]
            ELSE IF dr + r >= d THEN [q |-> dq + 1, r |-> dr + r - d]
            ELSE [q |-> dq, r |-> dr + r]

\* the integer nearest to 1000 * n/d, ties to the even one (d > 0)
Thousandths(n, d) ==
    LET f == ScaledDiv(1000, n % d, d)
        fl == 1000 * (n \div d) + f.q
    IN IF 2 * f.r < d THEN fl
       ELSE IF 2 * f.r > d THEN fl + 1
       ELSE IF fl % 2 = 0 THEN fl ELSE fl + 1

\* v < p/q for a rational v and integers p, q > 0: floor(q * v) < p
RatBelow(v, p, q) == q * (v.n \div v.d) + ScaledDiv(q, v.n % v.d, v.d).q < p

\* round(v, 3) on a float64: NaN and the infinities round to themselves
Round3(v) == IF IsNum(v) THEN Rat(Thousandths(v.n, v.d), 1000) ELSE v

-----------------------------------------------------------------------------
(* Step 1 of the script: the calibration table and the fit *)

\* concs and default_abs of the script, in model units
DefaultConcs == <<0, 1, 10, 20, 40, 60, 80, 100>>
DefaultAbs == <<0, 1, 3, 6, 11, 16, 20, 24>>

RECURSIVE SeqSum(_)
SeqSum(s) == IF s = <<>> THEN 0 ELSE Head(s) + SeqSum(Tail(s))
SeqMin(s) == CHOOSE x \in {s[i] : i \in DOMAIN s} : \A i \in DOMAIN s : x <= s[i]
SeqMax(s) == CHOOSE x \in {s[i] : i \in DOMAIN s} : \A i \in DOMAIN s : x >= s[i]

\* min_conc_option, max_conc_option and initial_end_conc
min_conc_option(c) == SeqMin(c)
max_conc_option(c) == SeqMax(c)
initial_start_conc == 0
initial_end_conc(c) == SeqMax(c)

\* np.min(np.diff(np.sort(np.unique(x_all)))), or 1.0 with one unique value
step_val(c) ==
    LET u == {c[i] : i \in DOMAIN c}
    IN IF Cardinality(u) > 1
       THEN CHOOSE g \in {y - x : x, y \in u} :
                /\ g > 0
                /\ \A x, y \in u : y > x => y - x >= g
       ELSE ConcScale

\* st.number_input raises when its default value lies outside
\* [min_value, max_value]; the end input's default is max_conc_option itself
StartInputRaises(c) ==
    initial_start_conc < min_conc_option(c) \/ initial_start_conc > max_conc_option(c)

\* the mask with the lower bound exclusive
linear_mask_exclusive(c, s, e) == [i \in DOMAIN c |-> c[i] > s /\ c[i] <= e]

\* linear_mask = (x_all >= start_conc) & (x_all <= end_conc)
linear_mask(c, s, e) == [i \in DOMAIN c |-> c[i] >= s /\ c[i] <= e]

\* x_all[linear_mask]: the masked elements, in order
RECURSIVE Masked(_, _)
Masked(s, m) ==
    IF s = <<>> THEN <<>>
    ELSE LET rest == Masked(Tail(s), Tail(m))
         IN IF Head(m) THEN <<Head(s)>> \o rest ELSE rest

\* xmean, ymean and ssxm, ssxym, ssym = np.cov(x, y, bias=1).flat: the means
\* of the products of the deviations from the mean.  The deviations are kept
\* as the integers n * x[i] - sum(x).
moments(xs, ys) ==
    LET n == Len(xs)
        sx == SeqSum(xs)
        sy == SeqSum(ys)
        dx == [i \in 1..n |-> n * xs[i] - sx]
        dy == [i \in 1..n |-> n * ys[i] - sy]
        n3 == n * n * n
    IN [xmean |-> Rat(sx, n * ConcScale),
        ymean |-> Rat(sy, n * AbsScale),
        ssxm |-> Rat(SeqSum([i \in 1..n |-> dx[i] * dx[i]]), n3 * ConcScale * ConcScale),
        ssxym |-> Rat(SeqSum([i \in 1..n |-> dx[i] * dy[i]]), n3 * ConcScale * AbsScale),
        ssym |-> Rat(SeqSum([i \in 1..n |-> dy[i] * dy[i]]), n3 * AbsScale * AbsScale)]

LinregressRaised ==
    [raised |-> TRUE, slope |-> Unbound, intercept |-> Unbound, r_squared |-> Unbound]

\* linregress with the intercept taken to be ymean
linregress_intercept_ymean(xs, ys) ==
    IF SeqMax(xs) = SeqMin(xs) THEN LinregressRaised
    ELSE LET mo == moments(xs, ys)
             m == RatDiv(mo.ssxym, mo.ssxm)
         IN [raised |-> FALSE,
             slope |-> m,
             intercept |-> mo.ymean,
             r_squared |-> IF mo.ssym.n = 0 THEN Zero
                           ELSE RatMul(m, RatDiv(mo.ssxym, mo.ssym))]

\* scipy.stats.linregress(x, y) for len(x) >= 2.  It raises ValueError when
\* all x are identical.  Otherwise r = 0 if ssxm or ssym is 0, else
\* ssxym / sqrt(ssxm * ssym); slope = ssxym / ssxm; intercept = ymean -
\* slope * xmean.  r_squared is r * r = (ssxym / ssxm) * (ssxym / ssym).
linregress(xs, ys) ==
    IF SeqMax(xs) = SeqMin(xs) THEN LinregressRaised
    ELSE LET mo == moments(xs, ys)
             m == RatDiv(mo.ssxym, mo.ssxm)
         IN [raised |-> FALSE,
             slope |-> m,
             intercept |-> RatSub(mo.ymean, RatMul(m, mo.xmean)),
             r_squared |-> IF mo.ssym.n = 0 THEN Zero
                           ELSE RatMul(m, RatDiv(mo.ssxym, mo.ssym))]

-----------------------------------------------------------------------------
(* Step 2 of the script: the unknown samples *)

UnknownRows == 1..3

\* the estimate without the intercept subtracted
estimate_without_intercept(abs_val, slope_, intercept_) ==
    IF IsNaN(abs_val) THEN NaN
    ELSE IF IsNaN(slope_) \/ IsNaN(intercept_) THEN NoValidFit
    ELSE LET est_conc == FDiv(abs_val, slope_)
         IN IF FNegative(est_conc) THEN Zero ELSE Round3(est_conc)

\* the estimate without the floor at zero
estimate_without_floor(abs_val, slope_, intercept_) ==
    IF IsNaN(abs_val) THEN NaN
    ELSE IF IsNaN(slope_) \/ IsNaN(intercept_) THEN NoValidFit
    ELSE Round3(FDiv(FSub(abs_val, intercept_), slope_))

\* est_conc = (abs_val - intercept) / slope is float64 arithmetic (slope and
\* intercept are numpy floats): it raises nothing, so neither except clause
\* is ever entered
estimate_concentration(abs_val, slope_, intercept_) ==
    IF IsNaN(abs_val) THEN NaN
    ELSE IF IsNaN(slope_) \/ IsNaN(intercept_) THEN NoValidFit
    ELSE LET est_conc == FDiv(FSub(abs_val, intercept_), slope_)
         IN IF FNegative(est_conc) THEN Zero ELSE Round3(est_conc)

-----------------------------------------------------------------------------
(* Step 3 of the script: the dilution correction *)

\* the condition with a zero estimate accepted
DilutionComputable_zero_accepted(est, dil, slope_, intercept_) ==
    est >= 0 /\ dil >= 1 /\ ~IsNaN(slope_) /\ ~IsNaN(intercept_)

\* the condition of the if on original_conc_final
DilutionComputable(est, dil, slope_, intercept_) ==
    est > 0 /\ dil >= 1 /\ ~IsNaN(slope_) /\ ~IsNaN(intercept_)

\* original_conc_final after the if / elif chain
dilution_correction(est, dil, slope_, intercept_) ==
    IF DilutionComputable(est, dil, slope_, intercept_)
    THEN Rat(est * dil, EstScale)
    ELSE NaN

\* which of st.success / st.warning / st.info the chain shows
dilution_message(est, dil, slope_, intercept_) ==
    IF DilutionComputable(est, dil, slope_, intercept_) THEN "success"
    ELSE IF IsNaN(slope_) \/ IsNaN(intercept_) THEN "warning: no valid linear fit"
    ELSE "info: enter inputs"

-----------------------------------------------------------------------------
(* Rendering: what a value looks like on screen and in the exported text *)

\* A rendered field: a decimal number (m thousandths), a text, or nothing.
NumberField(m) == [t |-> "number", s |-> "", m |-> m]
TextField(str) == [t |-> "text", s |-> str, m |-> 0]
EmptyField == [t |-> "empty", s |-> "", m |-> 0]

SpecialText(v) ==
    IF v.k = "nan" THEN "nan"
    ELSE IF v.k = "inf" THEN "inf"
    ELSE IF v.k = "ninf" THEN "-inf"
    ELSE v.k

\* f"{v:.3f}"
Format3f(v) ==
    IF IsNum(v) THEN NumberField(Thousandths(v.n, v.d)) ELSE TextField(SpecialText(v))

\* to_csv with na_rep="nan"
to_csv_cell_na_rep(v) ==
    IF IsNum(v) THEN NumberField(Thousandths(v.n, v.d)) ELSE TextField(SpecialText(v))

\* one cell of DataFrame.to_csv: a missing value (NaN) is written as the
\* empty string, a string as itself, a number in full
to_csv_cell(v) ==
    IF IsNaN(v) THEN EmptyField
    ELSE IF IsNum(v) THEN NumberField(Thousandths(v.n, v.d))
    ELSE TextField(SpecialText(v))

NotCalculatedText ==
    "Not calculated or invalid input (check estimated concentration and dilution factor, and if a valid linear fit was made)."

\* the parts of the text generate_combined_csv returns that depend on the
\* derived values (lo, hi: start_conc_fit, end_conc_fit)
generate_combined_csv(unknown_est, final_conc, beverage_name, slope_val, intercept_val, r_squared_val, lo, hi) ==
    [produced |-> TRUE,
     range |-> <<lo, hi>>,
     slope |-> Format3f(slope_val),
     intercept |-> Format3f(intercept_val),
     r_squared |-> Format3f(r_squared_val),
     beverage |-> beverage_name,
     estimates |-> [i \in DOMAIN unknown_est |-> to_csv_cell(unknown_est[i])],
     final |-> IF ~IsNaN(final_conc) THEN Format3f(final_conc)
               ELSE TextField(NotCalculatedText)]

\* a run that stopped before the download button offers no report
NoReport ==
    [produced |-> FALSE, range |-> <<0, 0>>, slope |-> EmptyField,
     intercept |-> EmptyField, r_squared |-> EmptyField, beverage |-> "",
     estimates |-> [i \in UnknownRows |-> EmptyField], final |-> EmptyField]

\* what the first two sections show about the fit
FitScreen(kind, r2) ==
    [fit |-> kind,
     r_squared |-> IF kind = "equation" THEN Format3f(r2) ELSE EmptyField,
     r_squared_warning |-> kind = "equation" /\ IsNum(r2) /\ RatBelow(r2, 95, 100)]

-----------------------------------------------------------------------------
(* One run of the script *)

\* a run that starts with the variables the previous run left
StaleNamespace == [slope |-> slope, intercept |-> intercept, r_squared |-> r_squared,
                   original_conc_final |-> original_conc_final]

\* Streamlit executes every run in a new module: no script variable is bound
\* when the run starts, which is what the "'r_value' in locals()" tests read
FreshNamespace == [slope |-> Unbound, intercept |-> Unbound, r_squared |-> Unbound,
                   original_conc_final |-> Unbound]

\* r_squared_for_download
r_squared_for_download(r2) ==
    IF r2.k # "unbound" /\ ~IsNaN(r2) THEN r2 ELSE NaN

\* the run from the dilution section to the download button, given the fit
\* section's variables
RunFromStep2(s, e, u, bev, est, dil, m, b, r2, fitKind) ==
    LET est_col == [i \in UnknownRows |-> estimate_concentration(u[i], m, b)]
        final == dilution_correction(est, dil, m, b)
    IN [pc |-> "done",
        slope |-> m,
        intercept |-> b,
        r_squared |-> r2,
        estimates |-> est_col,
        original_conc_final |-> final,
        screen |-> [fit |-> FitScreen(fitKind, r2),
                    dilution |-> dilution_message(est, dil, m, b),
                    dilution_value |-> IF DilutionComputable(est, dil, m, b)
                                       THEN Format3f(final) ELSE EmptyField],
        report |-> generate_combined_csv(
                       est_col, final,
                       IF bev # "" THEN bev ELSE "Unknown_Beverage",
                       m, b, r_squared_for_download(r2), s, e)]

\* a run ended by an uncaught exception at the place `at`
Aborted(at, ns) ==
    [pc |-> at,
     slope |-> ns.slope,
     intercept |-> ns.intercept,
     r_squared |-> ns.r_squared,
     estimates |-> [i \in UnknownRows |-> Unbound],
     original_conc_final |-> ns.original_conc_final,
     screen |-> [fit |-> FitScreen("exception", Unbound),
                 dilution |-> "none", dilution_value |-> EmptyField],
     report |-> NoReport]

\* the else branch of the fit: slope and intercept become NaN, r_value is
\* not assigned
FitElseBranch(ns) == [slope |-> NaN, intercept |-> NaN, r_squared |-> ns.r_squared]

\* the whole script, from the inputs (c, a: the calibration table; s, e: the
\* range; u: the unknown absorbances; bev; est, dil: the dilution inputs)
RunScript(c, a, s, e, u, bev, est, dil, ns) ==
    IF StartInputRaises(c) THEN Aborted("number_input", ns)
    ELSE LET mask == linear_mask(c, s, e)
             x_linear == Masked(c, mask)
             y_linear == Masked(a, mask)
         IN IF Len(x_linear) >= 2
            THEN LET fit == linregress(x_linear, y_linear)
                 IN IF fit.raised THEN Aborted("linregress", ns)
                    ELSE RunFromStep2(s, e, u, bev, est, dil, fit.slope,
                                      fit.intercept, fit.r_squared, "equation")
            ELSE LET f == FitElseBranch(ns)
                 IN RunFromStep2(s, e, u, bev, est, dil, f.slope, f.intercept,
                                 f.r_squared, "error")

-----------------------------------------------------------------------------
(* The inputs a user chooses from *)

\* rows of the calibration table that are edited (every row stays in the fit)
StdRows == {1, 2}
ConcChoices == {0, 1}
AbsChoices == {0, 1, 3}
RangeChoices == {0, 1, 10, 100}
UnknownChoices == {NaN, Zero, Rat(30, 100)}
BeverageChoices == {"Orange Soda", ""}
EstimatedChoices == {0, 500}
DilutionChoices == {1, 10}

\* the state of the widgets when the page is first opened
DefaultUnknown == [i \in UnknownRows |-> NaN]
DefaultBeverage == "Orange Soda"
DefaultEstimated == 0
DefaultDilution == 1

Count(b) == IF b THEN 1 ELSE 0

\* how many widgets / cells hold another value than when the page was opened
Changed(c, a, s, e, u, bev, est, dil) ==
      SeqSum([i \in DOMAIN c |-> Count(c[i] # DefaultConcs[i])])
    + SeqSum([i \in DOMAIN a |-> Count(a[i] # DefaultAbs[i])])
    + Count(s # initial_start_conc)
    + Count(e # initial_end_conc(c))
    + SeqSum([i \in UnknownRows |-> Count(u[i] # NaN)])
    + Count(bev # DefaultBeverage)
    + Count(est # DefaultEstimated)
    + Count(dil # DefaultDilution)

\* the parameters of the two range inputs: a number_input whose parameters
\* change is a new widget and shows its default value again
RangeWidgetParams(c) ==
    <<min_conc_option(c), max_conc_option(c), step_val(c), initial_end_conc(c)>>

\* rt when estimate_concentration is not called on its own
RtIdle == [m |-> Zero, b |-> Zero, C |-> Zero, absorbance |-> Zero,
           result |-> Unbound]

\* fits (slope m # 0, intercept b) and concentrations C >= 0 for the direct
\* calls of estimate_concentration
RtSlopes == {Rat(1, 2), Rat(-1, 2), Rat(3, 7), Rat(-7, 3), Rat(1, 1000),
             Rat(12, 100)}
RtIntercepts == {Zero, Rat(1, 20), Rat(-1, 3), Rat(2, 1), Rat(3, 70)}
RtConcs == {Zero, Rat(1, 2000), Rat(3, 2000), Rat(1, 3), Rat(2, 7),
            Rat(1234, 1000), Rat(10, 1)}

-----------------------------------------------------------------------------
(* The specification of the page *)

\* the script runs on the new inputs; the derived variables are its results
Rerun ==
    /\ Changed(concs', absorbs', start_conc', end_conc', unknown_abs',
               beverage', estimated_conc_input', dilution_factor_input')
           <= MaxChanged
    /\ \E c \in {concs'}, a \in {absorbs'}, s \in {start_conc'}, e \in {end_conc'},
          u \in {unknown_abs'} :
       \E run \in {RunScript(c, a, s, e, u, beverage', estimated_conc_input',
                             dilution_factor_input', FreshNamespace)} :
          /\ pc' = run.pc
          /\ slope' = run.slope
          /\ intercept' = run.intercept
          /\ r_squared' = run.r_squared
          /\ estimates' = run.estimates
          /\ original_conc_final' = run.original_conc_final
          /\ screen' = run.screen
          /\ report' = run.report

InitPage ==
    /\ concs = DefaultConcs
    /\ absorbs = DefaultAbs
    /\ start_conc = initial_start_conc
    /\ end_conc = initial_end_conc(DefaultConcs)
    /\ unknown_abs = DefaultUnknown
    /\ beverage = DefaultBeverage
    /\ estimated_conc_input = DefaultEstimated
    /\ dilution_factor_input = DefaultDilution
    /\ \E run \in {RunScript(DefaultConcs, DefaultAbs, initial_start_conc,
                             initial_end_conc(DefaultConcs), DefaultUnknown,
                             DefaultBeverage, DefaultEstimated, DefaultDilution,
                             FreshNamespace)} :
          /\ pc = run.pc
          /\ slope = run.slope
          /\ intercept = run.intercept
          /\ r_squared = run.r_squared
          /\ estimates = run.estimates
          /\ original_conc_final = run.original_conc_final
          /\ screen = run.screen
          /\ report = run.report

Init == InitPage /\ rt = RtIdle

\* the widgets a run reached: the calibration table always, the range inputs
\* unless the first of them raised, the rest only in a run that completed
RangeInputsShown == pc # "number_input"
LaterWidgetsShown == pc = "done"

EditStdConc(i, v) ==
    /\ v # concs[i]
    /\ concs' = [concs EXCEPT ![i] = v]
    /\ IF RangeWidgetParams(concs') # RangeWidgetParams(concs)
       THEN /\ start_conc' = initial_start_conc
            /\ end_conc' = initial_end_conc(concs')
       ELSE UNCHANGED <<start_conc, end_conc>>
    /\ UNCHANGED <<absorbs, unknown_abs, beverage, estimated_conc_input,
                   dilution_factor_input, rt>>
    /\ Rerun

EditStdAbs(i, v) ==
    /\ v # absorbs[i]
    /\ absorbs' = [absorbs EXCEPT ![i] = v]
    /\ UNCHANGED <<concs, start_conc, end_conc, unknown_abs, beverage,
                   estimated_conc_input, dilution_factor_input, rt>>
    /\ Rerun

SetStartConc(v) ==
    /\ RangeInputsShown
    /\ v # start_conc
    /\ min_conc_option(concs) <= v /\ v <= max_conc_option(concs)
    /\ start_conc' = v
    /\ UNCHANGED <<concs, absorbs, end_conc, unknown_abs, beverage,
                   estimated_conc_input, dilution_factor_input, rt>>
    /\ Rerun

SetEndConc(v) ==
    /\ RangeInputsShown
    /\ v # end_conc
    /\ min_conc_option(concs) <= v /\ v <= max_conc_option(concs)
    /\ end_conc' = v
    /\ UNCHANGED <<concs, absorbs, start_conc, unknown_abs, beverage,
                   estimated_conc_input, dilution_factor_input, rt>>
    /\ Rerun

EditUnknownAbs(i, v) ==
    /\ LaterWidgetsShown
    /\ v # unknown_abs[i]
    /\ unknown_abs' = [unknown_abs EXCEPT ![i] = v]
    /\ UNCHANGED <<concs, absorbs, start_conc, end_conc, beverage,
                   estimated_conc_input, dilution_factor_input, rt>>
    /\ Rerun

SetBeverage(v) ==
    /\ LaterWidgetsShown
    /\ v # beverage
    /\ beverage' = v
    /\ UNCHANGED <<concs, absorbs, start_conc, end_conc, unknown_abs,
                   estimated_conc_input, dilution_factor_input, rt>>
    /\ Rerun

SetEstimatedConc(v) ==
    /\ LaterWidgetsShown
    /\ v # estimated_conc_input
    /\ estimated_conc_input' = v
    /\ UNCHANGED <<concs, absorbs, start_conc, end_conc, unknown_abs, beverage,
                   dilution_factor_input, rt>>
    /\ Rerun

SetDilutionFactor(v) ==
    /\ LaterWidgetsShown
    /\ v # dilution_factor_input
    /\ dilution_factor_input' = v
    /\ UNCHANGED <<concs, absorbs, start_conc, end_conc, unknown_abs, beverage,
                   estimated_conc_input, rt>>
    /\ Rerun

Next ==
    \/ \E i \in StdRows, v \in ConcChoices : EditStdConc(i, v)
    \/ \E i \in StdRows, v \in AbsChoices : EditStdAbs(i, v)
    \/ \E v \in RangeChoices : SetStartConc(v)
    \/ \E v \in RangeChoices : SetEndConc(v)
    \/ \E i \in UnknownRows, v \in UnknownChoices : EditUnknownAbs(i, v)
    \/ \E v \in BeverageChoices : SetBeverage(v)
    \/ \E v \in EstimatedChoices : SetEstimatedConc(v)
    \/ \E v \in DilutionChoices : SetDilutionFactor(v)

Spec == Init /\ [][Next]_vars

-----------------------------------------------------------------------------
(* estimate_concentration called on the absorbance of a point of the line *)

InitRT ==
    /\ InitPage
    /\ \E m \in RtSlopes, b \in RtIntercepts, c \in RtConcs :
          rt = [m |-> m, b |-> b, C |-> c,
                absorbance |-> RatAdd(RatMul(m, c), b),
                result |-> Unbound]

ApplyEstimate ==
    /\ rt.result = Unbound
    /\ rt' = [rt EXCEPT !.result = estimate_concentration(rt.absorbance, rt.m, rt.b)]
    /\ UNCHANGED <<inputs, derived>>

NextRT == ApplyEstimate

SpecRT == InitRT /\ [][NextRT]_vars

-----------------------------------------------------------------------------
(* The properties.  The fit range and its selection are restated here from *)
(* the inputs, independently of the operators that model the script.       *)

InRange(i) == start_conc <= concs[i] /\ concs[i] <= end_conc
Selected == {i \in DOMAIN concs : InRange(i)}
TooFewSelected == Cardinality(Selected) < 2
SelectedAllSame ==
    /\ Cardinality(Selected) >= 2
    /\ \A i, j \in Selected : concs[i] = concs[j]
Fittable == ~TooFewSelected /\ ~SelectedAllSame
\* the run got as far as the fit
FitReached == pc # "number_input"
Completed == pc = "done"

\* C1: whenever the range selects fewer than 2 points, or 2 or more points
\* that all have the same concentration, the fit ends in the blocking state:
\* the run goes on (no exception) with slope and intercept undefined (NaN).
C1_InsufficientDataIsBlockingState ==
    (FitReached /\ (TooFewSelected \/ SelectedAllSame))
        => (Completed /\ IsNaN(slope) /\ IsNaN(intercept))

\* C2: for every row with a numeric absorbance, when the fit failed (slope
\* or intercept undefined) or the slope is exactly zero, the estimate is an
\* invalid-fit sentinel: not a number and not the missing-input value NaN.
C2_InvalidFitGivesSentinel ==
    Completed =>
        \A i \in UnknownRows :
            (IsNum(unknown_abs[i]) /\ (IsNaN(slope) \/ IsNaN(intercept) \/ slope = Zero))
                => estimates[i] \in {NoValidFit, SlopeIsZero}

\* C3: after any sequence of edits the run completes through the download
\* step and produces a report.
C3_NeverAborts == Completed /\ report.produced

\* C4 as claimed: in the exported record no sentinel or unavailable value
\* is an empty field.
C4_NoEmptyField ==
    report.produced =>
        /\ report.slope.t # "empty"
        /\ report.intercept.t # "empty"
        /\ report.r_squared.t # "empty"
        /\ report.final.t # "empty"
        /\ \A i \in UnknownRows : report.estimates[i].t # "empty"

\* C4 as amended: in the exported record an undefined slope, intercept or
\* R-squared is the text "nan", an estimate under a failed fit is the text
\* "N/A (no valid linear fit)" and an uncomputed final concentration is the
\* "Not calculated ..." sentence; but an estimate is an empty field exactly
\* when it is NaN, which it is for every row without an absorbance.
C4_MarkersExceptMissingEstimate ==
    report.produced =>
        /\ report.slope.t # "empty"
        /\ report.intercept.t # "empty"
        /\ report.r_squared.t # "empty"
        /\ report.final.t # "empty"
        /\ IsNaN(slope) =>
              /\ report.slope = TextField("nan")
              /\ report.intercept = TextField("nan")
              /\ report.r_squared = TextField("nan")
        /\ IsNaN(original_conc_final) => report.final = TextField(NotCalculatedText)
        /\ \A i \in UnknownRows :
              /\ report.estimates[i].t = "empty" <=> IsNaN(estimates[i])
              /\ IsNaN(unknown_abs[i]) => report.estimates[i].t = "empty"
              /\ (IsNum(unknown_abs[i]) /\ IsNaN(slope))
                    => report.estimates[i] = TextField("N/A (no valid linear fit)")

\* a failed fit exported with one row that has an absorbance and one that
\* has none
C4_Witness ==
    /\ report.produced
    /\ IsNaN(slope)
    /\ \E i, j \in UnknownRows :
          /\ IsNum(unknown_abs[i]) /\ report.estimates[i].t = "text"
          /\ IsNaN(unknown_abs[j]) /\ report.estimates[j].t = "empty"

\* C5: the dilution correction gives the number estimated * factor exactly
\* when estimated > 0, factor >= 1 and slope and intercept are defined;
\* otherwise the result is unavailable (NaN), and neither the screen nor the
\* exported final-concentration block shows a number.
C5_DilutionCorrection ==
    LET computable == /\ Completed
                      /\ estimated_conc_input > 0
                      /\ dilution_factor_input >= 1
                      /\ IsNum(slope) /\ IsNum(intercept)
        product == estimated_conc_input * dilution_factor_input
    IN /\ computable =>
            /\ original_conc_final = Rat(product, EstScale)
            /\ screen.dilution = "success"
            /\ screen.dilution_value = NumberField(product)
            /\ report.final = NumberField(product)
       /\ ~computable =>
            /\ ~IsNum(original_conc_final)
            /\ screen.dilution # "success"
            /\ screen.dilution_value.t # "number"
            /\ report.final.t # "number"

\* 0.5 mg/mL at a dilution factor of 10 gives 5.0 mg/mL
C5_Witness ==
    /\ Completed
    /\ estimated_conc_input = 500 /\ dilution_factor_input = 10
    /\ original_conc_final = Rat(5, 1)
    /\ report.final = NumberField(5000)

\* C6: for a fit with slope m # 0 and intercept b and a concentration
\* C >= 0, the estimate for the absorbance m * C + b is a number within half
\* a thousandth of C.
C6_RoundTrip ==
    rt.result # Unbound =>
        /\ IsNum(rt.result)
        /\ LET diff == RatSub(rt.result, rt.C)
           IN 2000 * Abs(diff.n) <= diff.d

\* C = 1/3 on a line of negative slope comes back as 0.333
C6_Witness ==
    /\ rt.m = Rat(-7, 3)
    /\ rt.C = Rat(1, 3)
    /\ rt.result = Rat(333, 1000)

\* (absorbance - intercept) / slope is negative for row i
RawNegative(i) ==
    LET diff == RatSub(unknown_abs[i], intercept)
    IN (diff.n < 0 /\ slope.n > 0) \/ (diff.n > 0 /\ slope.n < 0)

\* C7: no numeric estimate is negative; under a valid fit (slope and
\* intercept defined, slope not zero) every row with an absorbance gets a
\* number, and that number is exactly 0 when (absorbance - intercept) / slope
\* is negative.
C7_EstimateNeverNegative ==
    \A i \in UnknownRows :
        /\ IsNum(estimates[i]) => estimates[i].n >= 0
        /\ (Completed /\ IsNum(unknown_abs[i]) /\ IsNum(slope) /\ IsNum(intercept)
               /\ slope # Zero)
             => /\ IsNum(estimates[i])
                /\ RawNegative(i) => estimates[i] = Zero

\* an absorbance below the intercept of a rising line
C7_Witness ==
    \E i \in UnknownRows :
        /\ Completed /\ IsNum(unknown_abs[i]) /\ IsNum(slope) /\ IsNum(intercept)
        /\ slope.n > 0
        /\ RawNegative(i)
        /\ estimates[i] = Zero

\* the sum of v[i] over the selected points
SelectedSum(v) == SeqSum([i \in DOMAIN concs |-> IF InRange(i) THEN v[i] ELSE 0])

\* the least-squares slope and intercept of the selected points, from the
\* sums of x, y, x*y and x*x
LeastSquaresSlope ==
    LET n == Cardinality(Selected)
        sx == SelectedSum(concs)
        sy == SelectedSum(absorbs)
        sxy == SelectedSum([i \in DOMAIN concs |-> concs[i] * absorbs[i]])
        sxx == SelectedSum([i \in DOMAIN concs |-> concs[i] * concs[i]])
    IN Rat((n * sxy - sx * sy) * ConcScale, (n * sxx - sx * sx) * AbsScale)
LeastSquaresIntercept ==
    LET n == Cardinality(Selected)
        sx == SelectedSum(concs)
        sy == SelectedSum(absorbs)
    IN RatMul(RatSub(Rat(sy, AbsScale), RatMul(LeastSquaresSlope, Rat(sx, ConcScale))),
              Rat(1, n))

\* C8: when the range selects at least 2 points of distinct concentration,
\* slope and intercept are the least-squares values over exactly the points
\* with start <= concentration <= end.
C8_LeastSquaresOverRange ==
    (FitReached /\ Fittable) =>
        /\ Completed
        /\ slope = LeastSquaresSlope
        /\ intercept = LeastSquaresIntercept

\* three of the eight points selected, one on each bound of the range
C8_Witness ==
    /\ Completed
    /\ Fittable
    /\ Cardinality(Selected) = 3
    /\ \E i, j \in Selected : concs[i] = start_conc /\ concs[j] = end_conc /\ i # j
    /\ IsNum(slope) /\ slope # Zero

TwoSelected == Cardinality(Selected) = 2 /\ Fittable
\* the fitted line passes through calibration point i
OnLine(i) ==
    RatAdd(RatMul(slope, Rat(concs[i], ConcScale)), intercept) = Rat(absorbs[i], AbsScale)
SelectedAbsorbancesDiffer == \E i, j \in Selected : absorbs[i] # absorbs[j]

\* C9 as claimed: a range of exactly 2 points of distinct concentration
\* gives a line through both points and R-squared 1.0, whatever the two
\* absorbances.
C9_TwoPointsRSquaredOne ==
    (FitReached /\ TwoSelected) =>
        /\ Completed
        /\ \A i \in Selected : OnLine(i)
        /\ r_squared = Rat(1, 1)

\* C9 as amended: the line passes through both points; R-squared is 1.0
\* (shown and exported as 1.000, no warning) when the two absorbances differ,
\* and 0.0 (shown and exported as 0.000, with the low R-squared warning) when
\* they are equal, where the slope is 0.
C9_TwoPointsAmended ==
    (FitReached /\ TwoSelected) =>
        /\ Completed
        /\ \A i \in Selected : OnLine(i)
        /\ SelectedAbsorbancesDiffer =>
              /\ r_squared = Rat(1, 1)
              /\ screen.fit.r_squared = NumberField(1000)
              /\ ~screen.fit.r_squared_warning
              /\ report.r_squared = NumberField(1000)
        /\ ~SelectedAbsorbancesDiffer =>
              /\ slope = Zero
              /\ r_squared = Zero
              /\ screen.fit.r_squared = NumberField(0)
              /\ screen.fit.r_squared_warning
              /\ report.r_squared = NumberField(0)

\* two selected points with the same absorbance
C9_Witness ==
    /\ Completed
    /\ TwoSelected
    /\ ~SelectedAbsorbancesDiffer
    /\ r_squared = Zero

\* the derived values are those of a run of the script on the current inputs
\* that starts with no variable bound
DerivedFromInputsAlone ==
    LET run == RunScript(concs, absorbs, start_conc, end_conc, unknown_abs, beverage,
                         estimated_conc_input, dilution_factor_input,
                         [slope |-> Unbound, intercept |-> Unbound,
                          r_squared |-> Unbound, original_conc_final |-> Unbound])
    IN derived = <<run.pc, run.slope, run.intercept, run.r_squared, run.estimates,
                   run.original_conc_final, run.screen, run.report>>

\* an edit that takes a valid fit to inputs that allow none leaves no number
\* in slope, intercept, R-squared or the final concentration
NothingSurvivesInvalidation ==
    (Completed /\ IsNum(slope) /\ IsNum(intercept) /\ (TooFewSelected \/ SelectedAllSame)')
        => /\ ~IsNum(slope') /\ ~IsNum(intercept')
           /\ ~IsNum(r_squared') /\ ~IsNum(original_conc_final')
           /\ report'.produced =>
                 /\ report'.slope = TextField("nan")
                 /\ report'.intercept = TextField("nan")
                 /\ report'.r_squared = TextField("nan")
                 /\ report'.final = TextField(NotCalculatedText)

====
